---- MODULE Spec2Model ----
(***************************************************************************)
(* String-literal lexing of boa (boa/src/syntax/lexer/string.rs).          *)
(*                                                                         *)
(* Characters are Unicode scalar values, written as their numbers.  The    *)
(* text that follows the opening quote is `input`; the Cursor reads it     *)
(* front to back.  StringLiteral::lex is a state machine over `pc`:        *)
(*   "scan"    top of the outer loop (string.rs:45)                         *)
(*   "escape"  a backslash was read, the escapee is next (string.rs:61)     *)
(*   "hex"     inside `\x` (string.rs:76)                                   *)
(*   "braced"  inside `\u{` (string.rs:110)                                 *)
(*   "bare"    top of the inner loop of the bare `\u` form (string.rs:130)  *)
(*   "done"    lex has returned or panicked; `outcome` says how             *)
(*                                                                         *)
(* The test runner of boa (boa_tester/src/exec.rs, results.rs) is modelled  *)
(* further down with variables of its own: TestSuite::run walks the suite  *)
(* tree `suite` with the call stack `stack`, `ran` is the Test::run that    *)
(* returned last and `report` the SuiteResult of the root; write_json       *)
(* works on the files of `disk`, `last_call` is the call that returned     *)
(* last and `written` counts the calls that returned Ok per folder.        *)
(***************************************************************************)
EXTENDS Integers, Sequences, FiniteSets, TLC

VARIABLES input, terminator, start_pos, cursor, buf, pc, next_chr_start,
          codepoints, outcome,
          suite, stack, ran, report,
          disk, last_call, written

lexerVars == <<input, terminator, start_pos, cursor, buf, pc, next_chr_start,
               codepoints, outcome>>

suiteVars == <<suite, stack, ran, report>>

jsonVars == <<disk, last_call, written>>

vars == <<lexerVars, suiteVars, jsonVars>>

\* The test runner has not been started.
TesterIdle ==
    /\ suite = <<>>
    /\ stack = <<>>
    /\ ran = <<>>
    /\ report = <<>>
    /\ disk = <<>>
    /\ last_call = <<>>
    /\ written = <<>>

(***************************************************************************)
(* Characters named in the source.                                         *)
(***************************************************************************)
SingleQuoteChar == 39
DoubleQuoteChar == 34
Backslash == 92
LineFeed == 10
CarriageReturn == 13
Tab == 9
Backspace == 8
FormFeed == 12
Nul == 0
LBrace == 123
RBrace == 125
Ch_n == 110
Ch_r == 114
Ch_t == 116
Ch_b == 98
Ch_f == 102
Ch_0 == 48
Ch_x == 120
Ch_u == 117

\* Characters of the inputs that the source does not name.
Ch ==
    [a |-> 97, g |-> 103, q |-> 113, d1 |-> 49, d4 |-> 52, d7 |-> 55, d8 |-> 56,
     A |-> 65, D |-> 68, F |-> 70, d |-> 100, plus |-> 43, eacute |-> 233]

(***************************************************************************)
(* Bounds of the inputs.                                                   *)
(***************************************************************************)
\* longest text of the family of all texts over GenericChars
MaxLen == 3
\* most consecutive bare `\uHHHH` escapes in one text
MaxUnits == 2
\* most repetitions of the fill digit in a braced digit run
MaxFill == 8

(***************************************************************************)
(* Sequences.                                                              *)
(***************************************************************************)
SeqsUpTo(S, n) == UNION {[1..k -> S] : k \in 0..n}

RECURSIVE Rep(_, _)
Rep(c, k) == IF k = 0 THEN <<>> ELSE <<c>> \o Rep(c, k - 1)

RECURSIVE Flatten(_)
Flatten(ss) == IF ss = <<>> THEN <<>> ELSE Head(ss) \o Flatten(Tail(ss))

\* Display of an unsigned integer: its decimal digits, as characters.
RECURSIVE DisplayNum(_)
DisplayNum(n) ==
    IF n < 10 THEN <<Ch_0 + n>> ELSE Append(DisplayNum(n \div 10), Ch_0 + (n % 10))

\* Display of a char: the char.
DisplayChar(c) == <<c>>

\* Display of a Position: line, colon, column.
DisplayPos(p) == DisplayNum(p.line_number) \o <<58>> \o DisplayNum(p.column_number)

(***************************************************************************)
(* Hexadecimal.                                                            *)
(***************************************************************************)
\* char::to_digit(16)
IsHexDigit(c) == (c >= 48 /\ c <= 57) \/ (c >= 65 /\ c <= 70) \/ (c >= 97 /\ c <= 102)

\* HexVal that takes every letter for an upper-case one.
HexVal_UpperOnly(c) == IF c <= 57 THEN c - 48 ELSE c - 55

HexVal(c) ==
    IF c <= 57 THEN c - 48 ELSE IF c <= 70 THEN c - 55 ELSE c - 87

\* The first value that does not fit the upper part (all but the low 16
\* bits) of an unsigned integer of `bits` bits.  No text of at most 11
\* digits reaches the limit of 64 bits, which is kept representable.
HiLimit(bits) == IF bits = 16 THEN 1 ELSE IF bits = 32 THEN 65536 ELSE 1073741824

\* uN::from_str_radix(s, 16): one leading `+` is accepted, an empty digit
\* string or a character that is no hexadecimal digit is an Err, and so is a
\* value that overflows the type (checked multiplication and addition).
\* The value is kept as hi * 65536 + lo.
RECURSIVE ParseDigits(_, _, _, _)
ParseDigits(s, hi, lo, bits) ==
    IF s = <<>> THEN [ok |-> TRUE, hi |-> hi, lo |-> lo]
    ELSE IF ~IsHexDigit(Head(s)) THEN [ok |-> FALSE, hi |-> 0, lo |-> 0]
    ELSE LET hi2 == hi * 16 + (lo \div 4096)
             lo2 == (lo % 4096) * 16 + HexVal(Head(s))
         IN  IF hi2 >= HiLimit(bits) THEN [ok |-> FALSE, hi |-> 0, lo |-> 0]
             ELSE ParseDigits(Tail(s), hi2, lo2, bits)

FromStrRadix16(s, bits) ==
    LET digits == IF s # <<>> /\ Head(s) = Ch.plus THEN Tail(s) ELSE s
    IN  IF digits = <<>> THEN [ok |-> FALSE, hi |-> 0, lo |-> 0]
        ELSE ParseDigits(digits, 0, 0, bits)

(***************************************************************************)
(* Unicode.                                                                *)
(***************************************************************************)
\* IsSurrogate without the upper end of the range.
IsSurrogate_OpenEnded(v) == v >= 55296

IsSurrogate(v) == v >= 55296 /\ v <= 57343

\* IsScalar that checks the range only.
IsScalar_RangeOnly(hi, lo) == hi <= 16

\* char::from_u32 / char::try_from(u32): Some(v) unless v is a surrogate or
\* greater than 0x10FFFF.
IsScalar(hi, lo) == hi <= 16 /\ ~(hi = 0 /\ IsSurrogate(lo))

\* DecodeUtf16First that combines a pair without the offset of the
\* supplementary planes.
DecodeUtf16First_NoOffset(units) ==
    IF units = <<>> THEN [kind |-> "none", ch |-> 0]
    ELSE LET u == units[1]
         IN  IF u < 55296 \/ u > 57343 THEN [kind |-> "ok", ch |-> u]
             ELSE IF u >= 56320 THEN [kind |-> "err", ch |-> 0]
             ELSE IF Len(units) < 2 THEN [kind |-> "err", ch |-> 0]
             ELSE LET u2 == units[2]
                  IN  IF u2 < 56320 \/ u2 > 57343 THEN [kind |-> "err", ch |-> 0]
                      ELSE [kind |-> "ok", ch |-> (u - 55296) * 1024 + (u2 - 56320)]

\* decode_utf16(units).next(): the first item the decoder yields.
\* [kind |-> "none"] for no unit, "err" for an unpaired surrogate.
DecodeUtf16First(units) ==
    IF units = <<>> THEN [kind |-> "none", ch |-> 0]
    ELSE LET u == units[1]
         IN  IF ~IsSurrogate(u) THEN [kind |-> "ok", ch |-> u]
             ELSE IF u >= 56320 THEN [kind |-> "err", ch |-> 0]
             ELSE IF Len(units) < 2 THEN [kind |-> "err", ch |-> 0]
             ELSE LET u2 == units[2]
                  IN  IF u2 < 56320 \/ u2 > 57343 THEN [kind |-> "err", ch |-> 0]
                      ELSE [kind |-> "ok",
                            ch |-> 65536 + (u - 55296) * 1024 + (u2 - 56320)]

(***************************************************************************)
(* Position, Span and the Cursor.  The Cursor reads `input`: idx is the    *)
(* number of characters consumed, pos the position of the next one.        *)
(***************************************************************************)
Position(line, column) == [line_number |-> line, column_number |-> column]

Span(start, end) == [start |-> start, end |-> end]

\* The position after the character c at position p.
Advance(p, c) ==
    IF c = LineFeed THEN Position(p.line_number + 1, 1)
    ELSE Position(p.line_number, p.column_number + 1)

AtEnd(cur) == cur.idx = Len(input)

Peek(cur) == input[cur.idx + 1]

Consume(cur) == [idx |-> cur.idx + 1, pos |-> Advance(cur.pos, Peek(cur))]

\* Cursor::next: the next character, consumed, or None at the end.
CursorNext(cur) ==
    IF AtEnd(cur) THEN [some |-> FALSE, ch |-> 0, cur |-> cur]
    ELSE [some |-> TRUE, ch |-> Peek(cur), cur |-> Consume(cur)]

\* Cursor::next_is: consumes the next character only when it is c.
NextIs(cur, c) ==
    IF ~AtEnd(cur) /\ Peek(cur) = c THEN [is |-> TRUE, cur |-> Consume(cur)]
    ELSE [is |-> FALSE, cur |-> cur]

\* The cursor after k further characters: one Consume per character. A line
\* feed among them starts a new line, the characters after the last one
\* count the columns.
ConsumeN(cur, k) ==
    LET feeds == {i \in (cur.idx + 1)..(cur.idx + k) : input[i] = LineFeed}
        last  == CHOOSE m \in feeds : \A i \in feeds : i <= m
    IN  [idx |-> cur.idx + k,
         pos |-> IF feeds = {}
                 THEN Position(cur.pos.line_number, cur.pos.column_number + k)
                 ELSE Position(cur.pos.line_number + Cardinality(feeds),
                               1 + (cur.idx + k - last))]

\* Cursor::take_until: appends to `out` up to the first c, which is
\* consumed and not appended; an Err when the input ends first.
TakeUntil(cur, c, out) ==
    LET hits  == {i \in (cur.idx + 1)..Len(input) : input[i] = c}
        first == CHOOSE m \in hits : \A i \in hits : m <= i
    IN  IF hits = {}
        THEN [ok  |-> FALSE,
              out |-> out \o SubSeq(input, cur.idx + 1, Len(input)),
              cur |-> ConsumeN(cur, Len(input) - cur.idx)]
        ELSE [ok  |-> TRUE,
              out |-> out \o SubSeq(input, cur.idx + 1, first - 1),
              cur |-> ConsumeN(cur, first - cur.idx)]

\* Cursor::fill_bytes: n characters, each a single ASCII byte; an Err when
\* the input ends first ("eof") or a character is not ASCII ("data").
FillBytes(cur, n, out) ==
    LET left  == Len(input) - cur.idx
        avail == IF left < n THEN left ELSE n
        bad   == {k \in 1..avail : input[cur.idx + k] >= 128}
        first == CHOOSE m \in bad : \A k \in bad : m <= k
    IN  IF bad # {}
        THEN [ok |-> FALSE, why |-> "data",
              out |-> out \o SubSeq(input, cur.idx + 1, cur.idx + first - 1),
              cur |-> ConsumeN(cur, first)]
        ELSE IF avail < n
        THEN [ok |-> FALSE, why |-> "eof",
              out |-> out \o SubSeq(input, cur.idx + 1, cur.idx + avail),
              cur |-> ConsumeN(cur, avail)]
        ELSE [ok |-> TRUE, why |-> "",
              out |-> out \o SubSeq(input, cur.idx + 1, cur.idx + n),
              cur |-> ConsumeN(cur, n)]

(***************************************************************************)
(* Tokens and errors.  A message is a format string and the texts of its   *)
(* arguments, in the order the placeholders take them.                     *)
(***************************************************************************)
NoPosition == Position(0, 0)

NoOutcome ==
    [kind |-> "none", error |-> "", message |-> "", args |-> <<>>,
     content |-> <<>>, span |-> Span(NoPosition, NoPosition)]

\* Token whose span starts where it ends.
Token_EmptySpan(content, span) ==
    [kind |-> "Token", error |-> "", message |-> "", args |-> <<>>,
     content |-> content, span |-> [start |-> span.end, end |-> span.end]]

\* Ok(Token::new(TokenKind::string_literal(buf), Span::new(start_pos, cursor.pos())))
Token(content, span) ==
    [kind |-> "Token", error |-> "", message |-> "", args |-> <<>>,
     content |-> content, span |-> span]

\* UnexpectedEof with another ErrorKind.
UnexpectedEof_OtherKind(message) ==
    [kind |-> "Error", error |-> "Io", message |-> message, args |-> <<>>,
     content |-> <<>>, span |-> [start |-> [line_number |-> 0, column_number |-> 0],
                                end |-> [line_number |-> 0, column_number |-> 0]]]

\* Err(Error::from(io::Error::new(ErrorKind::UnexpectedEof, message)))
UnexpectedEof(message) ==
    [kind |-> "Error", error |-> "UnexpectedEof", message |-> message, args |-> <<>>,
     content |-> <<>>, span |-> Span(NoPosition, NoPosition)]

\* An io::Error of the reader, other than the end of the input.
IoError(message) ==
    [kind |-> "Error", error |-> "Io", message |-> message, args |-> <<>>,
     content |-> <<>>, span |-> Span(NoPosition, NoPosition)]

\* Err(Error::syntax(format!(message, args...)))
SyntaxError(message, args) ==
    [kind |-> "Error", error |-> "Syntax", message |-> message, args |-> args,
     content |-> <<>>, span |-> Span(NoPosition, NoPosition)]

\* .expect(message) on a None or an Err: the thread panics.
Panic(message) ==
    [kind |-> "Panic", error |-> "", message |-> message, args |-> <<>>,
     content |-> <<>>, span |-> Span(NoPosition, NoPosition)]

(***************************************************************************)
(* StringLiteral.                                                          *)
(***************************************************************************)
\* StringLiteral::new
New(init) == IF init = SingleQuoteChar THEN "SingleQuote" ELSE "DoubleQuote"

\* IsTerminator without the guards: either quote ends the literal.
IsTerminator_AnyQuote(c, term) == c = SingleQuoteChar \/ c = DoubleQuoteChar

\* The guards of the two terminator arms of the match.
IsTerminator(c, term) ==
    \/ c = SingleQuoteChar /\ term = "SingleQuote"
    \/ c = DoubleQuoteChar /\ term = "DoubleQuote"

\* IsLineContinuation that tests for a carriage-return.
IsLineContinuation_CarriageReturn(escape) == escape = CarriageReturn

\* string.rs:68: the escapee that is skipped (`if escape != '\n'`).
IsLineContinuation(escape) == escape = LineFeed

\* The escapees whose arm is a single character.
SimpleEscapees ==
    {Ch_n, Ch_r, Ch_t, Ch_b, Ch_f, Ch_0, SingleQuoteChar, DoubleQuoteChar, Backslash}

\* EscapedChar without the arm of `b`.
EscapedChar_NoBackspace(escape) ==
    CASE escape = Ch_n -> LineFeed
      [] escape = Ch_r -> CarriageReturn
      [] escape = Ch_t -> Tab
      [] escape = Ch_f -> FormFeed
      [] escape = Ch_0 -> Nul
      [] OTHER -> escape

\* The single-character arms of the escape match.
EscapedChar(escape) ==
    CASE escape = Ch_n -> LineFeed
      [] escape = Ch_r -> CarriageReturn
      [] escape = Ch_t -> Tab
      [] escape = Ch_b -> Backspace
      [] escape = Ch_f -> FormFeed
      [] escape = Ch_0 -> Nul
      [] OTHER -> escape

\* The error of the catch-all arm: the format string takes the line for its
\* first placeholder, the column for its second and the character for its
\* third.  (The backquotes around the first placeholder are written as
\* apostrophes here.)
InvalidEscapeError(at, ch) ==
    SyntaxError("invalid escape sequence '{}' at line {}, column {}",
                <<DisplayNum(at.line_number), DisplayNum(at.column_number),
                  DisplayChar(ch)>>)

\* The value of the digits read after `\x` or a bare `\u`: an Err of
\* from_str_radix is turned into 0.
HexOrZero(digits, bits) ==
    LET r == FromStrRadix16(digits, bits)
    IN  IF r.ok THEN r.hi * 65536 + r.lo ELSE 0

(***************************************************************************)
(* The operations of lex, one per place of the loop.                       *)
(***************************************************************************)
\* Return that leaves the loop running.
Return_KeepsLooping(o) ==
    /\ pc' = pc
    /\ outcome' = o

Return(o) ==
    /\ pc' = "done"
    /\ outcome' = o

\* string.rs:46-60 and 178: the head of the outer loop and the arms that
\* read no further character.
ReadChar ==
    /\ pc = "scan"
    /\ next_chr_start' = cursor.pos
    /\ LET n == CursorNext(cursor)
       IN  IF ~n.some
           THEN /\ Return(UnexpectedEof("unterminated string literal"))
                /\ UNCHANGED <<cursor, buf>>
           ELSE /\ cursor' = n.cur
                /\ IF IsTerminator(n.ch, terminator)
                   THEN /\ Return(Token(buf, Span(start_pos, n.cur.pos)))
                        /\ UNCHANGED buf
                   ELSE IF n.ch = Backslash
                   THEN /\ pc' = "escape"
                        /\ UNCHANGED <<buf, outcome>>
                   ELSE /\ buf' = Append(buf, n.ch)
                        /\ UNCHANGED <<pc, outcome>>
    /\ UNCHANGED <<input, terminator, start_pos, codepoints>>
    /\ UNCHANGED <<suiteVars, jsonVars>>

\* string.rs:61-75, 103-110, 128-129 and 164-177: the escapee is read; the
\* single-character arms push their character, `x` and `u` go on reading.
ReadEscape ==
    /\ pc = "escape"
    /\ LET n == CursorNext(cursor)
       IN  IF ~n.some
           THEN /\ Return(UnexpectedEof("unterminated escape sequence in string literal"))
                /\ UNCHANGED <<cursor, buf, codepoints>>
           ELSE IF IsLineContinuation(n.ch)
           THEN /\ cursor' = n.cur
                /\ pc' = "scan"
                /\ UNCHANGED <<buf, codepoints, outcome>>
           ELSE IF n.ch \in SimpleEscapees
           THEN /\ cursor' = n.cur
                /\ buf' = Append(buf, EscapedChar(n.ch))
                /\ pc' = "scan"
                /\ UNCHANGED <<codepoints, outcome>>
           ELSE IF n.ch = Ch_x
           THEN /\ cursor' = n.cur
                /\ pc' = "hex"
                /\ UNCHANGED <<buf, codepoints, outcome>>
           ELSE IF n.ch = Ch_u
           THEN LET b == NextIs(n.cur, LBrace)
                IN  /\ cursor' = b.cur
                    /\ pc' = IF b.is THEN "braced" ELSE "bare"
                    /\ codepoints' = <<>>
                    /\ UNCHANGED <<buf, outcome>>
           ELSE /\ cursor' = n.cur
                /\ Return(InvalidEscapeError(next_chr_start, n.ch))
                /\ UNCHANGED <<buf, codepoints>>
    /\ UNCHANGED <<input, terminator, start_pos, next_chr_start>>
    /\ UNCHANGED <<suiteVars, jsonVars>>

\* string.rs:76-102: the two characters after `\x`.
HexEscape ==
    /\ pc = "hex"
    /\ LET n1 == CursorNext(cursor)
           n2 == CursorNext(n1.cur)
       IN  IF ~n1.some \/ ~n2.some
           THEN /\ cursor' = IF n1.some THEN n1.cur ELSE cursor
                /\ Return(UnexpectedEof("unterminated escape sequence in string literal"))
                /\ UNCHANGED buf
           ELSE LET as_num == HexOrZero(<<n1.ch, n2.ch>>, 64)
                IN  /\ cursor' = n2.cur
                    /\ IF IsScalar(as_num \div 65536, as_num % 65536)
                       THEN /\ buf' = Append(buf, as_num)
                            /\ pc' = "scan"
                            /\ UNCHANGED outcome
                       ELSE /\ Return(SyntaxError("{}: {} is not a valid Unicode scalar value",
                                                  <<DisplayPos(n2.cur.pos), DisplayNum(as_num)>>))
                            /\ UNCHANGED buf
    /\ UNCHANGED <<input, terminator, start_pos, next_chr_start, codepoints>>
    /\ UNCHANGED <<suiteVars, jsonVars>>

\* string.rs:111-127: the digits of `\u{...}`.
BracedEscape ==
    /\ pc = "braced"
    /\ LET t == TakeUntil(cursor, RBrace, <<>>)
           r == FromStrRadix16(t.out, 32)
       IN  /\ cursor' = t.cur
           /\ IF ~t.ok
              THEN /\ Return(UnexpectedEof("take_until"))
                   /\ UNCHANGED buf
              ELSE IF ~r.ok
              THEN /\ Return(SyntaxError("malformed Unicode character escape sequence", <<>>))
                   /\ UNCHANGED buf
              ELSE IF r.hi > 16
              THEN /\ Return(SyntaxError("Unicode codepoint must not be greater than 0x10FFFF in escape sequence", <<>>))
                   /\ UNCHANGED buf
              ELSE IF ~IsScalar(r.hi, r.lo)
              THEN /\ Return(SyntaxError("invalid Unicode escape sequence", <<>>))
                   /\ UNCHANGED buf
              ELSE /\ buf' = Append(buf, r.hi * 65536 + r.lo)
                   /\ pc' = "scan"
                   /\ UNCHANGED outcome
    /\ UNCHANGED <<input, terminator, start_pos, next_chr_start, codepoints>>
    /\ UNCHANGED <<suiteVars, jsonVars>>

\* string.rs:130-162: one turn of the inner loop of the bare form, and,
\* when the loop breaks, the decoding of the code units.
BareUnit ==
    /\ pc = "bare"
    /\ LET f == FillBytes(cursor, 4, <<>>)
           units == Append(codepoints, HexOrZero(f.out, 16))
           n1 == NextIs(f.cur, Backslash)
           n2 == NextIs(n1.cur, Ch_u)
           d == DecodeUtf16First(units)
       IN  IF ~f.ok
           THEN /\ cursor' = f.cur
                /\ Return(IF f.why = "eof" THEN UnexpectedEof("fill_bytes")
                          ELSE IoError("fill_bytes"))
                /\ UNCHANGED <<buf, codepoints>>
           ELSE IF n1.is /\ n2.is
           THEN /\ cursor' = n2.cur
                /\ codepoints' = units
                /\ UNCHANGED <<buf, pc, outcome>>
           ELSE /\ cursor' = n1.cur
                /\ codepoints' = <<>>
                /\ IF d.kind = "ok"
                   THEN /\ buf' = Append(buf, d.ch)
                        /\ pc' = "scan"
                        /\ UNCHANGED outcome
                   ELSE /\ Return(Panic("Could not get next codepoint"))
                        /\ UNCHANGED buf
    /\ UNCHANGED <<input, terminator, start_pos, next_chr_start>>
    /\ UNCHANGED <<suiteVars, jsonVars>>

Next ==
    \/ ReadChar
    \/ ReadEscape
    \/ HexEscape
    \/ BracedEscape
    \/ BareUnit

(***************************************************************************)
(* The texts lex is run on.                                                *)
(***************************************************************************)
\* The upper-case hexadecimal digit of d, and the four digits of a code unit.
HexChar(d) == IF d < 10 THEN 48 + d ELSE 55 + d

Hex4(v) ==
    <<HexChar(v \div 4096), HexChar((v \div 256) % 16),
      HexChar((v \div 16) % 16), HexChar(v % 16)>>

\* The hexadecimal digits of v without leading zeros (one digit for 0).
RECURSIVE HexDigits(_)
HexDigits(v) ==
    IF v < 16 THEN <<HexChar(v)>> ELSE Append(HexDigits(v \div 16), HexChar(v % 16))

HexChars == {c \in 48..102 : IsHexDigit(c)}

\* Every text of at most MaxLen of these characters.
GenericChars ==
    {SingleQuoteChar, DoubleQuoteChar, Backslash, LineFeed, Ch_n, Ch_x, Ch_u,
     LBrace, RBrace, Ch.d4, Ch.q}

GenericTexts == SeqsUpTo(GenericChars, MaxLen)

\* A backslash and one escapee.
SimpleBodies ==
    {<<Backslash, e>> : e \in SimpleEscapees \cup {LineFeed, Ch.a, Ch.q, Ch.d1, Ch.eacute}}

\* `\x` and two characters.
HexBodies ==
    {<<Backslash, Ch_x, a, b>> : a, b \in HexChars \cup {Ch.g, Ch.plus}}

\* The code units of the bare form: the ends of the basic plane, of the
\* high and of the low surrogates, and values inside them.
UnitSamples == {0, 65, 55295, 55296, 55357, 56319, 56320, 56832, 57343, 57344, 65535}

HighSurrogates == {u \in UnitSamples : u >= 55296 /\ u <= 56319}

LowSurrogates == {u \in UnitSamples : u >= 56320 /\ u <= 57343}

BareEscape(u) == <<Backslash, Ch_u>> \o Hex4(u)

BareRuns == UNION {[1..k -> UnitSamples] : k \in 1..MaxUnits}

BareRun(us) == Flatten([i \in 1..Len(us) |-> BareEscape(us[i])])

\* Four characters after `\u` that are not four hexadecimal digits.
BadUnits ==
    {<<Ch.g, Ch_0, Ch.d4, Ch.d1>>, <<Ch_0, Ch_0, Ch.d4, Ch.g>>,
     <<Ch.plus, Ch_0, Ch.d4, Ch.d1>>, <<Ch_0, Ch.eacute, Ch.d4, Ch.d1>>,
     <<Ch_0, Ch_0, Ch.d4>>}

\* Code units written with lower-case digits.
LowerUnits == {<<Ch_0, Ch_0, Ch_f, Ch_f>>, <<Ch_f, Ch_f, Ch_f, Ch_b>>, <<Ch.d, Ch.d8, Ch_0, Ch_0>>}

BareBodies ==
    {BareRun(us) : us \in BareRuns}
    \cup {<<Backslash, Ch_u>> \o t : t \in BadUnits \cup LowerUnits}

\* The scalars of the supplementary planes that the sampled surrogates encode.
Supplementary(h, l) == 65536 + (h - 55296) * 1024 + (l - 56320)

\* The digit runs of the braced form: up to two leading digits and a digit
\* repeated up to MaxFill times, the digits of sampled values, and runs
\* that are not hexadecimal.
BracedRuns ==
    {lead \o Rep(fill, k) :
        lead \in SeqsUpTo({Ch_0, Ch.d1, Ch.F}, 2), fill \in {Ch_0, Ch.F}, k \in 0..MaxFill}
    \cup {HexDigits(v) : v \in UnitSamples \cup {128512}}
    \cup {HexDigits(Supplementary(h, l)) : h \in HighSurrogates, l \in LowSurrogates}
    \cup {<<Ch_0, Ch_0>> \o HexDigits(55296), <<Ch.d1, Ch_f, Ch.d4, Ch_0, Ch_0>>,
          <<Ch.plus, Ch.d4, Ch.d1>>, <<Ch.g>>, <<Ch.d4, Ch.g>>, <<Ch.plus>>}

BracedBodies == {<<Backslash, Ch_u, LBrace>> \o run \o <<RBrace>> : run \in BracedRuns}

Prefixes == {<<>>, <<Ch.eacute, LineFeed, Ch.a>>}

Suffixes ==
    {<<>>, <<SingleQuoteChar>>, <<DoubleQuoteChar>>,
     <<Ch.a, SingleQuoteChar, DoubleQuoteChar>>,
     <<Backslash, Ch_n, DoubleQuoteChar, SingleQuoteChar>>}

EscapeBodies == SimpleBodies \cup HexBodies \cup BracedBodies \cup BareBodies

Inputs ==
    GenericTexts \cup {p \o b \o s : p \in Prefixes, b \in EscapeBodies, s \in Suffixes}

\* The opening quote is at line 1, column 1, and has been consumed.
Init ==
    /\ input \in Inputs
    /\ \E init \in {SingleQuoteChar, DoubleQuoteChar} : terminator = New(init)
    /\ start_pos = Position(1, 1)
    /\ cursor = [idx |-> 0, pos |-> Position(1, 2)]
    /\ buf = <<>>
    /\ pc = "scan"
    /\ next_chr_start = Position(1, 2)
    /\ codepoints = <<>>
    /\ outcome = NoOutcome
    /\ TesterIdle

Spec == Init /\ [][Next]_vars

(***************************************************************************)
(* What the properties below speak of: the characters ahead of the cursor, *)
(* the value a run of digits denotes, and the position of a character of   *)
(* the input, each read off the input text itself.                         *)
(***************************************************************************)
Ahead(k) == IF cursor.idx + k <= Len(input) THEN input[cursor.idx + k] ELSE -1

Has(k) == cursor.idx + k <= Len(input)

QuoteOf(term) == IF term = "SingleQuote" THEN SingleQuoteChar ELSE DoubleQuoteChar

\* The digit a character denotes in base 16, or -1.
DigitOf(c) ==
    IF \E d \in 0..15 : c = HexChar(d) \/ (d >= 10 /\ c = HexChar(d) + 32)
    THEN CHOOSE d \in 0..15 : c = HexChar(d) \/ (d >= 10 /\ c = HexChar(d) + 32)
    ELSE -1

AllDigits(run) == run # <<>> /\ \A i \in 1..Len(run) : DigitOf(run[i]) >= 0

RECURSIVE StripZeros(_)
StripZeros(run) ==
    IF Len(run) > 1 /\ DigitOf(Head(run)) = 0 THEN StripZeros(Tail(run)) ELSE run

\* The number a run of at most seven significant digits denotes.
RECURSIVE Denoted(_)
Denoted(run) ==
    IF run = <<>> THEN 0
    ELSE 16 * Denoted(SubSeq(run, 1, Len(run) - 1)) + DigitOf(run[Len(run)])

\* The denoted value of a run of digits exceeds 0x10FFFF.
ExceedsMax(run) ==
    LET sig == StripZeros(run)
    IN  Len(sig) > 6 \/ Denoted(sig) > 1114111

InSurrogateRange(v) == v >= 55296 /\ v <= 57343

\* The position of the i-th character of the input (the first is at line 1,
\* column 2, after the opening quote).
RECURSIVE PositionOf(_)
PositionOf(i) ==
    IF i = 1 THEN Position(1, 2)
    ELSE LET p == PositionOf(i - 1)
         IN  IF input[i - 1] = LineFeed THEN Position(p.line_number + 1, 1)
             ELSE Position(p.line_number, p.column_number + 1)

\* The characters ahead of the cursor up to the first `}` (excluded), when
\* there is one.
HasBrace == \E i \in (cursor.idx + 1)..Len(input) : input[i] = RBrace

BraceAt == CHOOSE i \in (cursor.idx + 1)..Len(input) :
               input[i] = RBrace /\ \A j \in (cursor.idx + 1)..(i - 1) : input[j] # RBrace

BracedRun == SubSeq(input, cursor.idx + 1, BraceAt - 1)

(***************************************************************************)
(* C1.  A backslash followed by one of n, r, t, b, f, 0, ', ", \ appends   *)
(* exactly one character: line-feed, carriage-return, tab, U+0008, U+000C, *)
(* NUL for the letters and the escapee itself for the other three; the     *)
(* escapee is the only character consumed and lexing goes on, also when    *)
(* the escaped quote is the terminator.                                    *)
(***************************************************************************)
C1_Expected ==
    (Ch_n :> 10) @@ (Ch_r :> 13) @@ (Ch_t :> 9) @@ (Ch_b :> 8) @@ (Ch_f :> 12)
    @@ (Ch_0 :> 0) @@ (39 :> 39) @@ (34 :> 34) @@ (92 :> 92)

C1_SimpleEscapes ==
    [][/\ (pc = "scan" /\ Has(1) /\ Ahead(1) = Backslash)
            => (pc' = "escape" /\ buf' = buf /\ cursor'.idx = cursor.idx + 1)
       /\ (pc = "escape" /\ Has(1) /\ Ahead(1) \in DOMAIN C1_Expected)
            => /\ buf' = Append(buf, C1_Expected[Ahead(1)])
               /\ cursor'.idx = cursor.idx + 1
               /\ pc' = "scan"
               /\ outcome' = outcome]_vars

\* The escaped terminator has been read as content and lexing goes on.
C1_Witness ==
    /\ input = <<Backslash, SingleQuoteChar, SingleQuoteChar>>
    /\ terminator = "SingleQuote"
    /\ cursor.idx = 2
    /\ pc = "scan"
    /\ buf = <<SingleQuoteChar>>

(***************************************************************************)
(* C2.  A backslash followed by a character that is neither line-feed nor  *)
(* one of n, r, t, b, f, 0, x, u, ', ", \ ends lex with the SyntaxError    *)
(* "invalid escape sequence `C` at line L, column K": C the escapee, (L,   *)
(* K) the position of the backslash; no token is produced.                 *)
(***************************************************************************)
C2_Recognized ==
    {LineFeed, Ch_n, Ch_r, Ch_t, Ch_b, Ch_f, Ch_0, Ch_x, Ch_u,
     SingleQuoteChar, DoubleQuoteChar, Backslash}

C2_InvalidEscapeMessage ==
    [][(pc = "escape" /\ Has(1) /\ Ahead(1) \notin C2_Recognized)
          => /\ pc' = "done"
             /\ outcome'.kind = "Error"
             /\ outcome'.error = "Syntax"
             /\ outcome'.message = "invalid escape sequence '{}' at line {}, column {}"
             /\ outcome'.args =
                   <<DisplayChar(Ahead(1)),
                     DisplayNum(PositionOf(cursor.idx).line_number),
                     DisplayNum(PositionOf(cursor.idx).column_number)>>]_vars

(***************************************************************************)
(* C3.  lex never aborts: it ends by returning a Token or an Error, never  *)
(* by a panic, also when the code units of a bare `\u` escape hold an      *)
(* unpaired surrogate.                                                     *)
(***************************************************************************)
C3_NeverAborts ==
    /\ outcome.kind # "Panic"
    /\ pc = "done" => outcome.kind \in {"Token", "Error"}

(***************************************************************************)
(* C4.  For a scalar S of the supplementary planes with UTF-16 encoding    *)
(* (H, L), the literal `\uH\uL` and the literal `\u{S}` both lex to a      *)
(* token whose content is the one scalar S.                                 *)
(***************************************************************************)
C4_SurrogateRoundTrip ==
    \A h \in HighSurrogates, l \in LowSurrogates, q \in {SingleQuoteChar, DoubleQuoteChar} :
        LET S == Supplementary(h, l)
        IN  (/\ pc = "done"
             /\ terminator = New(q)
             /\ \/ input = BareEscape(h) \o BareEscape(l) \o <<q>>
                \/ input = <<Backslash, Ch_u, LBrace>> \o HexDigits(S) \o <<RBrace, q>>)
            => /\ outcome.kind = "Token"
               /\ outcome.content = <<S>>

\* The pair D83D, DE00 in the bare form has been lexed to U+1F600.
C4_Witness ==
    /\ input = BareEscape(55357) \o BareEscape(56832) \o <<SingleQuoteChar>>
    /\ terminator = "SingleQuote"
    /\ pc = "done"
    /\ outcome.content = <<128512>>

(***************************************************************************)
(* C5.  When the two characters after `\x`, or the four characters after   *)
(* a bare `\u`, are not all hexadecimal digits, lex fails with a           *)
(* SyntaxError and appends nothing.                                        *)
(***************************************************************************)
C5_BadHexIsSyntaxError ==
    [][/\ (pc = "hex" /\ Has(2) /\ ~AllDigits(<<Ahead(1), Ahead(2)>>))
            => (pc' = "done" /\ outcome'.error = "Syntax" /\ buf' = buf)
       /\ (pc = "bare" /\ Has(4)
           /\ ~AllDigits(<<Ahead(1), Ahead(2), Ahead(3), Ahead(4)>>))
            => (pc' = "done" /\ outcome'.error = "Syntax" /\ buf' = buf)]_vars

(***************************************************************************)
(* C6.  In `\u{D...D}` with a non-empty run of hexadecimal digits of any   *)
(* length whose value exceeds 0x10FFFF, lex fails with the SyntaxError     *)
(* "Unicode codepoint must not be greater than 0x10FFFF...".               *)
(***************************************************************************)
C6_TooLargeCodepoint ==
    [][(pc = "braced" /\ HasBrace /\ AllDigits(BracedRun) /\ ExceedsMax(BracedRun))
          => /\ pc' = "done"
             /\ outcome'.error = "Syntax"
             /\ outcome'.message =
                   "Unicode codepoint must not be greater than 0x10FFFF in escape sequence"]_vars

(***************************************************************************)
(* C7.  In `\u{D...D}` whose digits denote a value v of at most 0x10FFFF:  *)
(* lex consumes `{`, the digits and `}`, and nothing else; when v is no    *)
(* surrogate it appends the one scalar v and goes on, and when v is a      *)
(* surrogate it fails with the SyntaxError "invalid Unicode escape         *)
(* sequence" and appends nothing.                                          *)
(***************************************************************************)
C7_BracedEscape ==
    [][/\ (pc = "escape" /\ Has(2) /\ Ahead(1) = Ch_u /\ Ahead(2) = LBrace)
            => (pc' = "braced" /\ cursor'.idx = cursor.idx + 2 /\ buf' = buf)
       /\ (pc = "braced" /\ HasBrace /\ AllDigits(BracedRun) /\ ~ExceedsMax(BracedRun))
            => LET v == Denoted(StripZeros(BracedRun))
               IN  /\ cursor'.idx = cursor.idx + Len(BracedRun) + 1
                   /\ IF InSurrogateRange(v)
                      THEN /\ pc' = "done"
                           /\ outcome' = SyntaxError("invalid Unicode escape sequence", <<>>)
                           /\ buf' = buf
                      ELSE /\ pc' = "scan"
                           /\ buf' = Append(buf, v)
                           /\ outcome' = outcome]_vars

\* `\u{1F600}` has been read and U+1F600 appended.
C7_Witness ==
    /\ input = <<Backslash, Ch_u, LBrace>> \o HexDigits(128512) \o <<RBrace, SingleQuoteChar>>
    /\ cursor.idx = 9
    /\ pc = "scan"
    /\ buf = <<128512>>

(***************************************************************************)
(* C8.  For hexadecimal digits H1 H2, `\xH1H2` consumes the two digits,    *)
(* appends the one scalar 16*H1+H2 and does not fail.                      *)
(***************************************************************************)
C8_HexEscape ==
    [][(pc = "hex" /\ Has(2) /\ AllDigits(<<Ahead(1), Ahead(2)>>))
          => /\ cursor'.idx = cursor.idx + 2
             /\ buf' = Append(buf, 16 * DigitOf(Ahead(1)) + DigitOf(Ahead(2)))
             /\ pc' = "scan"
             /\ outcome' = outcome]_vars

\* `\x4a` has been read and U+004A appended.
C8_Witness ==
    /\ input = <<Backslash, Ch_x, Ch.d4, Ch.a, SingleQuoteChar>>
    /\ cursor.idx = 4
    /\ pc = "scan"
    /\ buf = <<74>>

(***************************************************************************)
(* C9.  A first bare `\uHHHH` whose digits denote a code unit that is no   *)
(* surrogate, followed by a character that is no backslash, consumes the   *)
(* four digits and appends the one scalar of that value.                   *)
(***************************************************************************)
C9_SingleBareEscape ==
    [][(/\ pc = "bare" /\ codepoints = <<>> /\ Has(5)
        /\ AllDigits(<<Ahead(1), Ahead(2), Ahead(3), Ahead(4)>>)
        /\ ~InSurrogateRange(Denoted(<<Ahead(1), Ahead(2), Ahead(3), Ahead(4)>>))
        /\ Ahead(5) # Backslash)
          => /\ cursor'.idx = cursor.idx + 4
             /\ buf' = Append(buf, Denoted(<<Ahead(1), Ahead(2), Ahead(3), Ahead(4)>>))
             /\ pc' = "scan"
             /\ outcome' = outcome]_vars

\* The bare escape of FFFF before an `a` has been read and U+FFFF appended.
C9_Witness ==
    /\ input = BareEscape(65535) \o <<Ch.a, SingleQuoteChar, DoubleQuoteChar>>
    /\ cursor.idx = 6
    /\ pc = "scan"
    /\ buf = <<65535>>

(***************************************************************************)
(* C10.  In a literal without a backslash every character before the      *)
(* first quote that is the terminator is appended unchanged, the other     *)
(* quote included; the token's content is exactly these characters, and    *)
(* without such a quote there is no token.                                 *)
(***************************************************************************)
C10_HasTerminator == \E i \in 1..Len(input) : input[i] = QuoteOf(terminator)

C10_FirstTerminator ==
    CHOOSE i \in 1..Len(input) :
        input[i] = QuoteOf(terminator) /\ \A j \in 1..(i - 1) : input[j] # QuoteOf(terminator)

C10_VerbatimContent ==
    (\A i \in 1..Len(input) : input[i] # Backslash)
      => /\ pc = "scan" => buf = SubSeq(input, 1, cursor.idx)
         /\ (pc = "done" /\ C10_HasTerminator)
              => /\ outcome.kind = "Token"
                 /\ outcome.content = SubSeq(input, 1, C10_FirstTerminator - 1)
                 /\ cursor.idx = C10_FirstTerminator
         /\ (pc = "done" /\ ~C10_HasTerminator) => outcome.kind = "Error"

\* A double quote is content of a single-quoted literal.
C10_Witness ==
    /\ input = <<DoubleQuoteChar, Ch.d4, SingleQuoteChar>>
    /\ terminator = "SingleQuote"
    /\ pc = "done"
    /\ outcome.kind = "Token"
    /\ outcome.content = <<DoubleQuoteChar, Ch.d4>>

(***************************************************************************)
(* C11.  A backslash followed at once by a line-feed appends nothing: the  *)
(* two characters are consumed, the buffer is as before and lexing goes on *)
(* with the next character, so the text a, backslash, line-feed, b lexes   *)
(* to the content ab.                                                      *)
(***************************************************************************)
C11_LineContinuation ==
    /\ [][(pc = "escape" /\ Has(1) /\ Ahead(1) = 10)
             => /\ buf' = buf
                /\ cursor'.idx = cursor.idx + 1
                /\ pc' = "scan"
                /\ outcome' = outcome]_vars
    /\ [](\A p \in Prefixes :
            (/\ input = p \o <<Backslash, 10, Ch.a, SingleQuoteChar, DoubleQuoteChar>>
             /\ terminator = "SingleQuote"
             /\ pc = "done")
              => (outcome.kind = "Token" /\ outcome.content = p \o <<Ch.a>>))

\* The continuation after the prefix has been skipped and the literal closed.
C11_Witness ==
    /\ input = <<Ch.eacute, LineFeed, Ch.a, Backslash, LineFeed, Ch.a,
                 SingleQuoteChar, DoubleQuoteChar>>
    /\ terminator = "SingleQuote"
    /\ pc = "done"
    /\ outcome.content = <<Ch.eacute, LineFeed, Ch.a, Ch.a>>

(***************************************************************************)
(* C12.  When the input ends where the next ordinary character is read,    *)
(* lex returns UnexpectedEndOfInput "unterminated string literal"; when    *)
(* it ends right after a backslash or within the two characters of `\x`,   *)
(* it returns UnexpectedEndOfInput "unterminated escape sequence in string *)
(* literal".  No token is returned.                                        *)
(***************************************************************************)
C12_EofError(message) ==
    [kind |-> "Error", error |-> "UnexpectedEof", message |-> message, args |-> <<>>,
     content |-> <<>>, span |-> Span(Position(0, 0), Position(0, 0))]

C12_Unterminated ==
    [][/\ (pc = "scan" /\ ~Has(1))
            => (pc' = "done" /\ outcome' = C12_EofError("unterminated string literal"))
       /\ ((pc = "escape" /\ ~Has(1)) \/ (pc = "hex" /\ ~Has(2)))
            => /\ pc' = "done"
               /\ outcome' =
                     C12_EofError("unterminated escape sequence in string literal")]_vars

\* The input ended after one of the two characters of `\x`.
C12_Witness ==
    /\ input = <<Backslash, Ch_x, Ch.d4>>
    /\ pc = "done"
    /\ outcome.error = "UnexpectedEof"
    /\ outcome.message = "unterminated escape sequence in string literal"

(***************************************************************************)
(* C13.  When the terminator is read, lex returns StringLiteral(buffer)    *)
(* with a span from the start position given to lex to the position just   *)
(* after the terminator, and consumes nothing after the terminator.        *)
(***************************************************************************)
C13_TokenSpan ==
    /\ [][(pc = "scan" /\ Has(1) /\ Ahead(1) = QuoteOf(terminator))
             => /\ pc' = "done"
                /\ cursor'.idx = cursor.idx + 1
                /\ outcome'.kind = "Token"
                /\ outcome'.content = buf
                /\ outcome'.span.start = start_pos
                /\ outcome'.span.end = PositionOf(cursor.idx + 2)]_vars
    /\ []((pc = "done" /\ outcome.kind = "Token")
            => /\ cursor.idx >= 1
               /\ input[cursor.idx] = QuoteOf(terminator)
               /\ outcome.span.start = Position(1, 1)
               /\ outcome.span.end = PositionOf(cursor.idx + 1))

\* A literal closed on its second line, with text left after the quote.
C13_Witness ==
    /\ input = <<Ch.eacute, LineFeed, Ch.a, Backslash, Ch_n, Ch.a,
                 SingleQuoteChar, DoubleQuoteChar>>
    /\ terminator = "SingleQuote"
    /\ pc = "done"
    /\ cursor.idx = 7
    /\ outcome.span = Span(Position(1, 1), Position(2, 6))

(***************************************************************************)
(* C16.  After the digits of a bare `\uHHHH` the lookahead consumes        *)
(* characters only when the next two are a backslash and `u`: a backslash  *)
(* followed by another character is left for the outer loop.               *)
(***************************************************************************)
C16_LookaheadKeepsBackslash ==
    [][(/\ pc = "bare" /\ Has(6)
        /\ AllDigits(<<Ahead(1), Ahead(2), Ahead(3), Ahead(4)>>)
        /\ ~(Ahead(5) = Backslash /\ Ahead(6) = Ch_u))
          => cursor'.idx = cursor.idx + 4]_vars

(***************************************************************************)
(* C17.  No code unit is dropped: when a run of bare `\u` escapes ends,    *)
(* every code unit collected is accounted for in the buffer, in order: a   *)
(* unit that is no surrogate as its scalar, a high surrogate with the low  *)
(* surrogate after it as the scalar of the pair.                           *)
(***************************************************************************)
RECURSIVE C17_Scalars(_)
C17_Scalars(units) ==
    IF units = <<>> THEN <<>>
    ELSE IF Len(units) >= 2 /\ units[1] >= 55296 /\ units[1] <= 56319
            /\ units[2] >= 56320 /\ units[2] <= 57343
    THEN <<Supplementary(units[1], units[2])>> \o C17_Scalars(Tail(Tail(units)))
    ELSE <<units[1]>> \o C17_Scalars(Tail(units))

C17_WellFormed(units) ==
    \A i \in 1..Len(C17_Scalars(units)) : ~InSurrogateRange(C17_Scalars(units)[i])

C17_NoUnitDropped ==
    [][(/\ pc = "bare" /\ Has(4)
        /\ AllDigits(<<Ahead(1), Ahead(2), Ahead(3), Ahead(4)>>)
        /\ ~(Has(6) /\ Ahead(5) = Backslash /\ Ahead(6) = Ch_u)
        /\ C17_WellFormed(Append(codepoints,
                                 Denoted(<<Ahead(1), Ahead(2), Ahead(3), Ahead(4)>>))))
          => buf' = buf \o C17_Scalars(Append(codepoints,
                                 Denoted(<<Ahead(1), Ahead(2), Ahead(3), Ahead(4)>>)))]_vars

InputsLive ==
    GenericTexts
    \cup {b \o s :
            b \in {BareRun(us) :
                      us \in UNION {[1..k -> {65, 55357, 56832}] : k \in 1..MaxUnits}}
                  \cup {<<Backslash, Ch_u>> \o t : t \in BadUnits \cup LowerUnits}
                  \cup {r \in BracedBodies : Len(r) <= 7},
            s \in Suffixes}

InitLive ==
    /\ input \in InputsLive
    /\ \E init \in {SingleQuoteChar, DoubleQuoteChar} : terminator = New(init)
    /\ start_pos = Position(1, 1)
    /\ cursor = [idx |-> 0, pos |-> Position(1, 2)]
    /\ buf = <<>>
    /\ pc = "scan"
    /\ next_chr_start = Position(1, 2)
    /\ codepoints = <<>>
    /\ outcome = NoOutcome
    /\ TesterIdle

\* lex runs: a step that can be taken is taken.
SpecLive == InitLive /\ [][Next]_vars /\ WF_vars(Next)

(***************************************************************************)
(* The test runner: Test::run and TestSuite::run (boa_tester/src/exec.rs). *)
(*                                                                         *)
(* A suite tree is `suite`: suites are numbered from 1, the root; parent   *)
(* gives each suite's parent (0 for the root) and tests the number of its  *)
(* direct tests; the child suites of a suite run in the order of their     *)
(* numbers.  What a test contains is read when the test is run.            *)
(***************************************************************************)
MaxSuites == 3
MaxTests == 2
MaxTotal == 4

\* The lexer is not running.
LexerIdle ==
    /\ input = <<>>
    /\ terminator = "SingleQuote"
    /\ start_pos = Position(1, 1)
    /\ cursor = [idx |-> 0, pos |-> Position(1, 2)]
    /\ buf = <<>>
    /\ pc = "idle"
    /\ next_chr_start = Position(1, 2)
    /\ codepoints = <<>>
    /\ outcome = NoOutcome

\* The names in test_ignore.txt, as IGNORED loads them.
IGNORED == {"skipped"}

Positive == [kind |-> "Positive", phase |-> "", error_type |-> ""]

Negative(phase, error_type) ==
    [kind |-> "Negative", phase |-> phase, error_type |-> error_type]

\* What the engine does with the content of a test: set_up_env and eval in
\* strict mode, set_up_env and eval in non-strict mode, and parse; each
\* returns Ok ("ok"), returns Err ("err") or panics ("panic").
Engine == {"ok", "err", "panic"}

Content(strict, no_strict, parsed) ==
    [strict |-> strict, no_strict |-> no_strict, parse |-> parsed]

NewTest(name, flags, expected_outcome, content) ==
    [name |-> name, flags |-> flags, expected_outcome |-> expected_outcome,
     content |-> content]

\* The tests a suite may hold: positive tests with every combination of RAW,
\* STRICT and NO_STRICT and every behaviour of the two evaluations; negative
\* tests of two phases and two error types with every behaviour of parse;
\* tests flagged ASYNC or MODULE and a test named in the ignore list.
AllTests ==
    {NewTest("t", fl, Positive, Content(st, ns, "ok")) :
        fl \in SUBSET {"RAW", "STRICT", "NO_STRICT"}, st \in Engine, ns \in Engine}
    \cup {NewTest("t", {}, Negative(ph, et), Content("ok", "ok", pa)) :
        ph \in {"Parse", "Runtime"}, et \in {"SyntaxError", "ReferenceError"},
        pa \in Engine}
    \cup {NewTest("t", {"ASYNC"}, Positive, Content("ok", "ok", "ok")),
          NewTest("t", {"MODULE", "STRICT"}, Positive, Content("ok", "ok", "ok")),
          NewTest("t", {"ASYNC"}, Negative("Parse", "SyntaxError"),
                  Content("ok", "ok", "err")),
          NewTest("skipped", {"STRICT"}, Positive, Content("ok", "ok", "ok"))}

\* exec.rs:95-100: the condition under which the test is executed.
Executes_NoIgnoreList(test) ==
    /\ test.flags \cap {"ASYNC", "MODULE"} = {}
    /\ \/ test.expected_outcome.kind = "Positive"
       \/ /\ test.expected_outcome.kind = "Negative"
          /\ test.expected_outcome.phase = "Parse"

Executes(test) ==
    /\ test.flags \cap {"ASYNC", "MODULE"} = {}
    /\ test.name \notin IGNORED
    /\ \/ test.expected_outcome.kind = "Positive"
       \/ /\ test.expected_outcome.kind = "Negative"
          /\ test.expected_outcome.phase = "Parse"

\* exec.rs:107-114 (117-124, 128-135): set_up_env, eval, passed = res.is_ok().
\* `runs` lists the evaluations started, `panicked` says that one unwound.
Eval(test, strict) ==
    LET res == IF strict THEN test.content.strict ELSE test.content.no_strict
    IN  [panicked |-> res = "panic",
         passed   |-> res = "ok",
         runs     |-> <<IF strict THEN "strict" ELSE "no_strict">>]

NotRun == [panicked |-> FALSE, passed |-> TRUE, runs |-> <<>>]

Unwound == [panicked |-> TRUE, passed |-> FALSE, runs |-> <<>>]

\* exec.rs:101-161: the closure run under catch_unwind.
Closure(test) ==
    IF test.expected_outcome.kind = "Positive"
    THEN IF "RAW" \in test.flags
         THEN Eval(test, FALSE)
         ELSE LET first == IF "STRICT" \in test.flags THEN Eval(test, TRUE)
                           ELSE NotRun
              IN  IF first.panicked THEN first
                  ELSE IF first.passed /\ "NO_STRICT" \in test.flags
                  THEN LET second == Eval(test, FALSE)
                       IN  [panicked |-> second.panicked,
                            passed   |-> second.passed,
                            runs     |-> first.runs \o second.runs]
                  ELSE first
    ELSE IF test.expected_outcome.phase = "Parse"
    THEN IF test.expected_outcome.error_type # "SyntaxError"
         THEN Unwound
         ELSE [panicked |-> test.content.parse = "panic",
               passed   |-> test.content.parse = "err",
               runs     |-> <<"parse">>]
    ELSE Unwound

TestResult(name, result) == [name |-> name, result |-> result]

\* Test::run: the TestResult and, beside it, the evaluations it started.
TestRun(test) ==
    IF Executes(test)
    THEN LET res == Closure(test)
         IN  [result |-> TestResult(test.name,
                            IF res.panicked THEN "Panic"
                            ELSE IF res.passed THEN "Passed" ELSE "Failed"),
              runs   |-> res.runs]
    ELSE [result |-> TestResult(test.name, "Ignored"), runs |-> <<>>]

\* exec.rs:46-56: the tests with one result, counted by the loop.
RECURSIVE CountTests(_, _)
CountTests(tests, result) ==
    IF tests = <<>> THEN 0
    ELSE (IF Head(tests).result = result THEN 1 ELSE 0)
         + CountTests(Tail(tests), result)

\* exec.rs:59-65: a counter after the child suites' counters are added.
RECURSIVE AddSuites_DirectOnly(_, _, _)
AddSuites_DirectOnly(count, suites, counter) ==
    IF suites = <<>> THEN count
    ELSE AddSuites_DirectOnly(count, Tail(suites), counter)

RECURSIVE AddSuites(_, _, _)
AddSuites(count, suites, counter) ==
    IF suites = <<>> THEN count
    ELSE AddSuites(count + Head(suites)[counter], Tail(suites), counter)

\* exec.rs:46-86: the SuiteResult of a suite whose child suites and tests
\* have run.
SuiteResult(name, suites, tests) ==
    [name    |-> name,
     total   |-> AddSuites(Len(tests), suites, "total"),
     passed  |-> AddSuites(CountTests(tests, "Passed"), suites, "passed"),
     ignored |-> AddSuites(CountTests(tests, "Ignored"), suites, "ignored"),
     panic   |-> AddSuites(CountTests(tests, "Panic"), suites, "panic"),
     suites  |-> suites,
     tests   |-> tests]

\* The child suites of suite k, in order.
Suites(k) ==
    LET kids == {i \in 1..Len(suite.parent) : suite.parent[i] = k}
    IN  [j \in 1..Cardinality(kids) |->
            CHOOSE i \in kids : Cardinality({x \in kids : x < i}) = j - 1]

\* A call of TestSuite::run in progress.
Frame(name) == [name |-> name, suites |-> <<>>, tests |-> <<>>]

Top == stack[Len(stack)]

NoRun == [test |-> <<>>, result |-> <<>>, runs |-> <<>>]

NoReport == <<>>

\* exec.rs:36: the next child suite is run.
EnterSuite ==
    /\ stack # <<>>
    /\ Len(Top.suites) < Len(Suites(Top.name))
    /\ stack' = Append(stack, Frame(Suites(Top.name)[Len(Top.suites) + 1]))
    /\ ran' = NoRun
    /\ UNCHANGED <<suite, report>>
    /\ UNCHANGED <<lexerVars, jsonVars>>

\* exec.rs:39: the next test is run, after every child suite.
RunTest ==
    /\ stack # <<>>
    /\ Len(Top.suites) = Len(Suites(Top.name))
    /\ Len(Top.tests) < suite.tests[Top.name]
    /\ \E test \in AllTests :
          LET run == TestRun(test)
          IN  /\ stack' = [stack EXCEPT ![Len(stack)].tests = Append(@, run.result)]
              /\ ran' = [test |-> test, result |-> run.result, runs |-> run.runs]
    /\ UNCHANGED <<suite, report>>
    /\ UNCHANGED <<lexerVars, jsonVars>>

\* exec.rs:46-86: the suite returns its SuiteResult to the suite that ran
\* it, the root to the caller.
ReturnSuite ==
    /\ stack # <<>>
    /\ Len(Top.suites) = Len(Suites(Top.name))
    /\ Len(Top.tests) = suite.tests[Top.name]
    /\ LET res  == SuiteResult(Top.name, Top.suites, Top.tests)
           rest == SubSeq(stack, 1, Len(stack) - 1)
       IN  IF rest = <<>>
           THEN /\ stack' = rest
                /\ report' = res
           ELSE /\ stack' = [rest EXCEPT ![Len(rest)].suites = Append(@, res)]
                /\ UNCHANGED report
    /\ ran' = NoRun
    /\ UNCHANGED suite
    /\ UNCHANGED <<lexerVars, jsonVars>>

NextSuite ==
    \/ EnterSuite
    \/ RunTest
    \/ ReturnSuite

RECURSIVE SumTo(_, _)
SumTo(f, n) == IF n = 0 THEN 0 ELSE f[n] + SumTo(f, n - 1)

\* The suite trees: at most MaxSuites suites, at most MaxTests direct tests
\* in each and at most MaxTotal tests in all.
SuiteTrees ==
    UNION {{[parent |-> p, tests |-> c] :
                p \in {q \in [1..n -> 0..(n - 1)] :
                          /\ q[1] = 0
                          /\ \A i \in 2..n : q[i] >= 1 /\ q[i] < i},
                c \in {d \in [1..n -> 0..MaxTests] : SumTo(d, n) <= MaxTotal}} :
           n \in 1..MaxSuites}

InitSuite ==
    /\ suite \in SuiteTrees
    /\ stack = <<Frame(1)>>
    /\ ran = NoRun
    /\ report = NoReport
    /\ disk = <<>>
    /\ last_call = <<>>
    /\ written = <<>>
    /\ LexerIdle

SpecSuite == InitSuite /\ [][NextSuite]_vars

(***************************************************************************)
(* C19, C20: the outcome of a test and the counters of a suite.             *)
(***************************************************************************)
\* The cases in which a test is to be ignored.
C19_ToIgnore(test) ==
    \/ "ASYNC" \in test.flags
    \/ "MODULE" \in test.flags
    \/ test.name \in IGNORED
    \/ /\ test.expected_outcome.kind = "Negative"
       /\ test.expected_outcome.phase # "Parse"

\* What the evaluation started in the given mode did.
C19_Did(test, mode) ==
    CASE mode = "strict"    -> test.content.strict
      [] mode = "no_strict" -> test.content.no_strict
      [] mode = "parse"     -> test.content.parse

RECURSIVE C19_AllRan(_)
C19_AllRan(res) ==
    /\ Len(res.tests) = suite.tests[res.name]
    /\ \A j \in 1..Len(res.suites) : C19_AllRan(res.suites[j])

\* C19: a test is Ignored, and nothing of it is evaluated, exactly when it is
\* flagged ASYNC or MODULE, is named in the ignore list or is negative in a
\* phase other than Parse; a negative Parse test is Passed exactly when parse
\* was called and returned an error; a positive test that is not RAW and is
\* flagged STRICT and NO_STRICT is evaluated in strict mode first, in
\* non-strict mode exactly when the strict evaluation succeeded, and is
\* Passed exactly when every evaluation started succeeded; an evaluation that
\* panics makes the test Panic, the test after it is still run, and every
\* test of every suite has a result when the root returns.
C19_Classification ==
    /\ ran # NoRun =>
          LET test   == ran.test
              result == ran.result.result
              runs   == ran.runs
          IN  /\ Top.tests[Len(Top.tests)] = ran.result
              /\ ran.result.name = test.name
              /\ (result = "Ignored") <=> C19_ToIgnore(test)
              /\ C19_ToIgnore(test) => runs = <<>>
              /\ ( /\ ~C19_ToIgnore(test)
                   /\ test.expected_outcome.kind = "Negative" )
                 => ( (result = "Passed")
                        <=> (runs = <<"parse">> /\ test.content.parse = "err") )
              /\ ( /\ ~C19_ToIgnore(test)
                   /\ test.expected_outcome.kind = "Positive"
                   /\ "RAW" \notin test.flags
                   /\ {"STRICT", "NO_STRICT"} \subseteq test.flags )
                 => /\ Len(runs) \in {1, 2}
                    /\ runs[1] = "strict"
                    /\ (Len(runs) = 2) <=> (test.content.strict = "ok")
                    /\ Len(runs) = 2 => runs[2] = "no_strict"
                    /\ (result = "Passed")
                         <=> (\A j \in 1..Len(runs) : C19_Did(test, runs[j]) = "ok")
              /\ (\E j \in 1..Len(runs) : C19_Did(test, runs[j]) = "panic")
                 => result = "Panic"
              /\ (result = "Panic" /\ Len(Top.tests) < suite.tests[Top.name])
                 => ENABLED RunTest
    /\ report # NoReport => C19_AllRan(report)

\* A test flagged STRICT and NO_STRICT whose strict evaluation succeeded and
\* whose non-strict evaluation failed has been run, after a test of the same
\* suite that panicked.
C19_Witness ==
    /\ ran # NoRun
    /\ ran.test = NewTest("t", {"STRICT", "NO_STRICT"}, Positive,
                          Content("ok", "err", "ok"))
    /\ ran.runs = <<"strict", "no_strict">>
    /\ ran.result.result = "Failed"
    /\ Len(Top.tests) = 2
    /\ Top.tests[1].result = "Panic"

\* The direct tests of a suite result that have the given result.
C20_Direct(res, result) ==
    Cardinality({j \in 1..Len(res.tests) : res.tests[j].result = result})

\* The sum of one counter over the first n child suites of a suite result.
RECURSIVE C20_Children(_, _, _)
C20_Children(res, counter, n) ==
    IF n = 0 THEN 0
    ELSE res.suites[n][counter] + C20_Children(res, counter, n - 1)

\* The Failed tests of a suite result and of the suites below it.
RECURSIVE C20_Failed(_)
C20_Failed(res) ==
    LET below[n \in 0..Len(res.suites)] ==
            IF n = 0 THEN 0 ELSE C20_Failed(res.suites[n]) + below[n - 1]
    IN  C20_Direct(res, "Failed") + below[Len(res.suites)]

RECURSIVE C20_Counted(_)
C20_Counted(res) ==
    LET n == Len(res.suites)
    IN  /\ n = Cardinality({k \in 1..Len(suite.parent) : suite.parent[k] = res.name})
        /\ Len(res.tests) = suite.tests[res.name]
        /\ res.total = suite.tests[res.name] + C20_Children(res, "total", n)
        /\ res.passed = C20_Direct(res, "Passed") + C20_Children(res, "passed", n)
        /\ res.ignored = C20_Direct(res, "Ignored") + C20_Children(res, "ignored", n)
        /\ res.panic = C20_Direct(res, "Panic") + C20_Children(res, "panic", n)
        /\ res.passed + res.ignored + res.panic <= res.total
        /\ res.total - (res.passed + res.ignored + res.panic) = C20_Failed(res)
        /\ \A j \in 1..n : C20_Counted(res.suites[j])

\* C20: every SuiteResult returned, by the root or by a suite below it, has
\* total = its direct tests + its child suites' totals, and passed, ignored
\* and panic = the direct tests with that result + the child suites' same
\* counter; passed + ignored + panic is at most total and falls short of it
\* by the number of Failed tests.
C20_CountInvariant ==
    /\ report # NoReport => C20_Counted(report)
    /\ \A k \in 1..Len(stack) :
          \A j \in 1..Len(stack[k].suites) : C20_Counted(stack[k].suites[j])

\* The root of a chain of three suites has returned: four tests in all, one
\* of each result, two of them in the innermost suite.
C20_Witness ==
    /\ report # NoReport
    /\ suite.parent = <<0, 1, 2>>
    /\ suite.tests = <<1, 1, 2>>
    /\ report.total = 4
    /\ report.passed = 1
    /\ report.ignored = 1
    /\ report.panic = 1
    /\ report.suites[1].suites[1].total = 2
    /\ report.suites[1].total = 3

(***************************************************************************)
(* write_json (boa_tester/src/results.rs).                                 *)
(*                                                                         *)
(* GITHUB_REF is the sequence of its path components (<<>> when it is not   *)
(* set); a folder of the output path is named by the branch joined to it,  *)
(* <<>> being the output path itself.  A file is absent, holds a JSON      *)
(* value (`data` is the sequence of its entries) or, after a write that     *)
(* failed, holds no valid JSON.                                            *)
(***************************************************************************)
MaxCalls == 3

Absent == [exists |-> FALSE, valid |-> FALSE, data |-> <<>>]

Written(data) == [exists |-> TRUE, valid |-> TRUE, data |-> data]

Partial == [exists |-> TRUE, valid |-> FALSE, data |-> <<>>]

Refs ==
    {<<>>, <<"refs", "pull", "7", "merge">>, <<"refs", "pull", "8", "merge">>,
     <<"refs", "heads", "master">>}

StartsWith(ref, prefix) ==
    /\ Len(ref) >= Len(prefix)
    /\ SubSeq(ref, 1, Len(prefix)) = prefix

\* results.rs:64-67.
Branch(ref) ==
    IF StartsWith(ref, <<"refs", "pull">>) THEN <<"pull">> ELSE ref

Folders == {Branch(ref) : ref \in Refs}

\* results.rs:85-89.
ResultInfo(commit, test262_commit, results) ==
    [commit |-> commit, test262_commit |-> test262_commit, results |-> results]

\* results.rs:39-51.
From(info) ==
    [commit         |-> info.commit,
     test262_commit |-> info.test262_commit,
     total          |-> info.results.total,
     passed         |-> info.results.passed,
     ignored        |-> info.results.ignored,
     panic          |-> info.results.panic]

\* results.rs:98-102: the entries already in results.json.
AllResults_Fresh(file) == <<>>

AllResults(file) == IF file.exists THEN file.data ELSE <<>>

\* The step of write_json that fails, if one does.
Faults ==
    {"none", "create_dir_all", "get_test262_commit", "create_latest",
     "write_latest", "read_results", "create_results", "write_results"}

\* write_json with an output path: what it returns and the files it leaves.
WriteTo(d, results, ref, sha, fault) ==
    LET folder == Branch(ref)
        made   == IF folder = <<>> THEN d
                  ELSE [d EXCEPT ![folder].dir = TRUE, ![<<>>].dir = TRUE]
        info   == ResultInfo(sha, "test262", results)
        latest == [made EXCEPT ![folder].latest = Written(<<info>>)]
        all    == Append(AllResults(latest[folder].results), From(info))
    IN  IF folder # <<>> /\ fault = "create_dir_all"
        THEN [status |-> "Err", disk |-> d, info |-> info]
        ELSE IF fault = "get_test262_commit"
        THEN [status |-> "Panic", disk |-> made, info |-> info]
        ELSE IF ~made[folder].dir \/ fault = "create_latest"
        THEN [status |-> "Err", disk |-> made, info |-> info]
        ELSE IF fault = "write_latest"
        THEN [status |-> "Err",
              disk   |-> [made EXCEPT ![folder].latest = Partial],
              info   |-> info]
        ELSE IF /\ latest[folder].results.exists
                /\ (fault = "read_results" \/ ~latest[folder].results.valid)
        THEN [status |-> "Err", disk |-> latest, info |-> info]
        ELSE IF fault = "create_results"
        THEN [status |-> "Err", disk |-> latest, info |-> info]
        ELSE IF fault = "write_results"
        THEN [status |-> "Err",
              disk   |-> [latest EXCEPT ![folder].results = Partial],
              info   |-> info]
        ELSE [status |-> "Ok",
              disk   |-> [latest EXCEPT ![folder].results = Written(all)],
              info   |-> info]

\* The results written: a suite of seven tests and a suite of one.
Results ==
    {SuiteResult("test", <<>>,
                 <<TestResult("t", "Passed"), TestResult("t", "Passed"),
                   TestResult("t", "Passed"), TestResult("t", "Ignored"),
                   TestResult("t", "Ignored"), TestResult("t", "Panic"),
                   TestResult("t", "Failed")>>),
     SuiteResult("test", <<>>, <<TestResult("t", "Passed")>>)}

\* GITHUB_SHA of the commit under test.
Shas == {"c1"}

NoCall ==
    [n |-> 0, configured |-> FALSE, folder |-> <<>>, status |-> "", info |-> <<>>]

\* results.rs:62-115: one call of write_json.
WriteJson ==
    /\ last_call.n < MaxCalls
    /\ \E results \in Results, configured \in BOOLEAN, ref \in Refs,
          sha \in Shas, fault \in Faults :
          IF ~configured
          THEN /\ last_call' = [n |-> last_call.n + 1, configured |-> FALSE,
                                folder |-> <<>>, status |-> "Ok", info |-> <<>>]
               /\ UNCHANGED <<disk, written>>
          ELSE LET call == WriteTo(disk, results, ref, sha, fault)
               IN  /\ disk' = call.disk
                   /\ last_call' = [n |-> last_call.n + 1, configured |-> TRUE,
                                    folder |-> Branch(ref), status |-> call.status,
                                    info |-> call.info]
                   /\ written' = IF call.status = "Ok"
                                 THEN [written EXCEPT ![Branch(ref)] = @ + 1]
                                 ELSE written
    /\ UNCHANGED <<lexerVars, suiteVars>>

NextJson == WriteJson

\* An entry of an earlier run of the tester.
OldEntry ==
    From(ResultInfo("old", "test262", SuiteResult("test", <<>>,
                        <<TestResult("t", "Passed"), TestResult("t", "Failed")>>)))

\* The output path may not exist yet; when it does, its results.json is
\* absent, holds one entry of an earlier run, or is not valid JSON.
InitJson ==
    /\ \E dir \in BOOLEAN :
       \E file \in {Absent, Written(<<OldEntry>>), Partial} :
          /\ dir \/ file = Absent
          /\ disk = [f \in Folders |->
                        IF f = <<>>
                        THEN [dir |-> dir, latest |-> Absent, results |-> file]
                        ELSE [dir |-> FALSE, latest |-> Absent, results |-> Absent]]
    /\ last_call = NoCall
    /\ written = [f \in Folders |-> 0]
    /\ suite = <<>>
    /\ stack = <<>>
    /\ ran = <<>>
    /\ report = <<>>
    /\ LexerIdle

SpecJson == InitJson /\ [][NextJson]_vars

(***************************************************************************)
(* C15: write_json appends.                                                *)
(***************************************************************************)
\* C15: a call with an output path that returns Ok leaves, in the folder it
\* wrote to, a results.json holding every entry it held before, in the same
\* order, followed by one new entry with the total, passed, ignored and
\* panic (and the commits) of the result written, and a latest.json holding
\* that full result and nothing else; the files of the other folders are as
\* they were.  Hence a valid results.json holds the entries of earlier runs
\* it started with plus one entry per call that returned Ok on its folder:
\* n entries after n calls when it started absent.
C15_Appends ==
    /\ [][ ( /\ last_call'.n = last_call.n + 1
             /\ last_call'.configured
             /\ last_call'.status = "Ok" )
           => LET f      == last_call'.folder
                  info   == last_call'.info
                  before == IF disk[f].results.exists THEN disk[f].results.data
                            ELSE <<>>
                  after  == disk'[f].results
              IN  /\ after.exists /\ after.valid
                  /\ Len(after.data) = Len(before) + 1
                  /\ SubSeq(after.data, 1, Len(before)) = before
                  /\ after.data[Len(after.data)] =
                        [commit         |-> info.commit,
                         test262_commit |-> info.test262_commit,
                         total          |-> info.results.total,
                         passed         |-> info.results.passed,
                         ignored        |-> info.results.ignored,
                         panic          |-> info.results.panic]
                  /\ info.results \in Results
                  /\ disk'[f].latest.exists /\ disk'[f].latest.valid
                  /\ disk'[f].latest.data = <<info>>
                  /\ \A g \in Folders \ {f} :
                        /\ disk'[g].results = disk[g].results
                        /\ disk'[g].latest = disk[g].latest ]_vars
    /\ [](\A f \in Folders :
            LET file == disk[f].results
                old  == Cardinality({j \in 1..Len(file.data) :
                                        file.data[j].commit = "old"})
            IN  /\ file.valid => Len(file.data) = old + written[f]
                /\ ~file.exists => written[f] = 0)

\* Two calls have appended to the results.json of the output path, which
\* held one entry of an earlier run: three entries, the new ones in the
\* order of the calls, and latest.json holds the second call's result.
C15_Witness ==
    /\ last_call.n = 2
    /\ last_call.status = "Ok"
    /\ last_call.folder = <<>>
    /\ written[<<>>] = 2
    /\ disk[<<>>].results.valid
    /\ Len(disk[<<>>].results.data) = 3
    /\ disk[<<>>].results.data[1] = OldEntry
    /\ disk[<<>>].results.data[2].total = 7
    /\ disk[<<>>].results.data[3].total = 1
    /\ disk[<<>>].latest.data[1].results.total = 1
====
